---- MODULE Spec2Model ----
(***************************************************************************)
(* High Volatility Short Bot (src/bot.py): long BTCUSDT, short the         *)
(* N_SHORTS most volatile alts, rebalanced at every 4-hour UTC mark.       *)
(*                                                                         *)
(* Python dicts are insertion ordered; a dict is modelled as a sequence of *)
(* records with pairwise distinct "symbol" fields, in insertion order.     *)
(*                                                                         *)
(* Amounts are exact rationals held as integers: a price is a whole number *)
(* of dollars (0 = get_current_price found no price), and a value, a size  *)
(* or a PnL is a whole multiple of 1/Unit, so value / price is exact.      *)
(***************************************************************************)
EXTENDS Integers, Sequences, FiniteSets, TLC

VARIABLES
    paper_positions,  \* self.paper_positions: symbol -> {side, size, entry}
    paper_pnl,        \* self.paper_pnl (realized)
    targets,          \* the targets dict handed to the execution step last
    prices,           \* what get_current_price returned in the last pass
    actions,          \* CLOSE / HOLD / REVERSE / OPEN lines logged by the last pass
    prevPositions,    \* paper_positions when the last pass began
    prevPnl,          \* paper_pnl when the last pass began
    PAPER_TRADE,      \* the PAPER_TRADE setting the process was started with
    exchange,         \* live mode: the positions the exchange holds for the account
    orders,           \* live mode: the orders the last cycle placed
    top_volatile,     \* run_once: what get_top_volatile_alts returned
    perp_symbols,     \* a single call: what get_usdt_perp_symbols returned to it
    candles,          \* a single call: what get_klines returned, by symbol
    faults,           \* what went wrong in the last cycle
    cycles,           \* how many times run_once has been entered
    lastStart,        \* the instant run_once was entered last
    lastReturn,       \* the instant run_once returned last
    now,              \* the UTC clock, in ticks
    next_rebalance,   \* run_loop: next_rebalance
    wait_seconds,     \* run_loop: wait_seconds, in ticks
    pc                \* where the control thread is

ledgerVars == <<paper_positions, paper_pnl, targets, prices, actions,
                prevPositions, prevPnl>>

callVars == <<perp_symbols, candles>>

botVars == <<PAPER_TRADE, exchange, orders, top_volatile, faults, cycles,
             lastStart, lastReturn, now, next_rebalance, wait_seconds, callVars>>

vars == <<ledgerVars, botVars, pc>>

-----------------------------------------------------------------------------
(* Configuration and the bounded environment *)

CAPITAL == 1000

N_SHORTS == 2

REF == "BTCUSDT"

Alts == {"AAAUSDT", "BBBUSDT", "CCCUSDT"}

Symbols == {REF} \cup Alts

\* the order in which the exchange lists the instruments
SymOrder == <<"BTCUSDT", "AAAUSDT", "BBBUSDT", "CCCUSDT">>

MaxPrice == 2

Prices == 0..MaxPrice

RECURSIVE Fact(_)
Fact(n) == IF n <= 1 THEN 1 ELSE n * Fact(n - 1)

\* every amount is a multiple of 1/Unit dollars (or coins)
Unit == N_SHORTS * Fact(MaxPrice)

Sides == {"Buy", "Sell"}

\* CAPITAL, and short_value_each = CAPITAL / N_SHORTS, in 1/Unit dollars
LongValue == CAPITAL * Unit

ShortValue == (CAPITAL * Unit) \div N_SHORTS

LOOKBACK == 30

\* the standard deviation pandas returns when it has no number to return
NaN == -1

MaxVol == 2

-----------------------------------------------------------------------------
(* dict operations *)

Keys(d) == [i \in 1..Len(d) |-> d[i].symbol]

KeySet(d) == {d[i].symbol : i \in 1..Len(d)}

Has(d, s) == s \in KeySet(d)

Get(d, s) == d[CHOOSE i \in 1..Len(d) : d[i].symbol = s]

Del(d, s) == SelectSeq(d, LAMBDA e : e.symbol # s)

\* d[e.symbol] = e: an existing key keeps its place, a new key goes last
Put(d, e) ==
    IF Has(d, e.symbol)
    THEN [i \in 1..Len(d) |-> IF d[i].symbol = e.symbol THEN e ELSE d[i]]
    ELSE Append(d, e)

\* a dict as a mapping, insertion order forgotten (dict equality in Python)
AsMap(d) == [s \in KeySet(d) |-> Get(d, s)]

-----------------------------------------------------------------------------
(* execute_paper_trade *)

\* PnL of a position closed at current_price
PositionPnl(pos, current_price) ==
    IF pos.side = "Sell"
    THEN (pos.entry - current_price) * pos.size
    ELSE (current_price - pos.entry) * pos.size

\* CloseStep without the del: the stray position stays in the ledger
CloseStepKeeps(st, symbol, tgts, price) ==
    IF ~Has(tgts, symbol) /\ price[symbol] > 0
    THEN [st EXCEPT !.pnl = @ + PositionPnl(Get(st.positions, symbol), price[symbol]),
                    !.log = Append(@, [act |-> "CLOSE", symbol |-> symbol])]
    ELSE st

\* CloseStep with "self.paper_pnl = pnl" for "self.paper_pnl += pnl"
CloseStepOverwritesPnl(st, symbol, tgts, price) ==
    IF ~Has(tgts, symbol)
    THEN [positions |-> Del(st.positions, symbol),
          pnl |-> IF price[symbol] > 0
                  THEN PositionPnl(Get(st.positions, symbol), price[symbol])
                  ELSE st.pnl,
          log |-> IF price[symbol] > 0
                  THEN Append(st.log, [act |-> "CLOSE", symbol |-> symbol])
                  ELSE st.log]
    ELSE st

\* CloseStep with the del inside "if current_price > 0"
CloseStepDelWhenPriced(st, symbol, tgts, price) ==
    IF ~Has(tgts, symbol) /\ price[symbol] > 0
    THEN [positions |-> Del(st.positions, symbol),
          pnl |-> st.pnl + PositionPnl(Get(st.positions, symbol), price[symbol]),
          log |-> Append(st.log, [act |-> "CLOSE", symbol |-> symbol])]
    ELSE st

\* one iteration of "Close positions not in targets"
CloseStep(st, symbol, tgts, price) ==
    IF ~Has(tgts, symbol)
    THEN LET pos == Get(st.positions, symbol)
             current_price == price[symbol]
         IN [positions |-> Del(st.positions, symbol),
             pnl |-> IF current_price > 0
                     THEN st.pnl + PositionPnl(pos, current_price)
                     ELSE st.pnl,
             log |-> IF current_price > 0
                     THEN Append(st.log, [act |-> "CLOSE", symbol |-> symbol])
                     ELSE st.log]
    ELSE st

RECURSIVE ClosePass(_, _, _, _)
ClosePass(keys, st, tgts, price) ==
    IF keys = <<>> THEN st
    ELSE ClosePass(Tail(keys), CloseStep(st, Head(keys), tgts, price), tgts, price)

\* OpenStep that drops the position of a target it finds no price for
OpenStepDropsUnpriced(st, target, price) ==
    IF price[target.symbol] <= 0
    THEN [st EXCEPT !.positions = Del(@, target.symbol)]
    ELSE LET opened == [symbol |-> target.symbol, side |-> target.side,
                        size |-> target.value \div price[target.symbol],
                        entry |-> price[target.symbol]]
         IN IF Has(st.positions, target.symbol)
               /\ Get(st.positions, target.symbol).side = target.side
            THEN [st EXCEPT !.log = Append(@, [act |-> "HOLD", symbol |-> target.symbol])]
            ELSE [positions |-> Put(st.positions, opened),
                  pnl |-> IF Has(st.positions, target.symbol)
                          THEN st.pnl + PositionPnl(Get(st.positions, target.symbol),
                                                    price[target.symbol])
                          ELSE st.pnl,
                  log |-> Append(st.log, [act |-> "OPEN", symbol |-> target.symbol])]

\* OpenStep with the side test inverted: a same-side position is reversed
OpenStepInvertedSide(st, target, price) ==
    IF price[target.symbol] <= 0 THEN st
    ELSE LET opened == [symbol |-> target.symbol, side |-> target.side,
                        size |-> target.value \div price[target.symbol],
                        entry |-> price[target.symbol]]
         IN IF Has(st.positions, target.symbol)
               /\ Get(st.positions, target.symbol).side # target.side
            THEN [st EXCEPT !.log = Append(@, [act |-> "HOLD", symbol |-> target.symbol])]
            ELSE [positions |-> Put(st.positions, opened),
                  pnl |-> IF Has(st.positions, target.symbol)
                          THEN st.pnl + PositionPnl(Get(st.positions, target.symbol),
                                                    price[target.symbol])
                          ELSE st.pnl,
                  log |-> Append(st.log, [act |-> "OPEN", symbol |-> target.symbol])]

\* OpenStep whose REVERSE replaces the position and forgets the old one's PnL
OpenStepReverseNoPnl(st, target, price) ==
    IF price[target.symbol] <= 0 THEN st
    ELSE LET opened == [symbol |-> target.symbol, side |-> target.side,
                        size |-> target.value \div price[target.symbol],
                        entry |-> price[target.symbol]]
         IN IF Has(st.positions, target.symbol)
            THEN IF Get(st.positions, target.symbol).side = target.side
                 THEN [st EXCEPT !.log = Append(@, [act |-> "HOLD", symbol |-> target.symbol])]
                 ELSE [st EXCEPT !.positions = Put(@, opened),
                                 !.log = @ \o <<[act |-> "REVERSE", symbol |-> target.symbol],
                                                [act |-> "OPEN", symbol |-> target.symbol]>>]
            ELSE [st EXCEPT !.positions = Put(@, opened),
                            !.log = Append(@, [act |-> "OPEN", symbol |-> target.symbol])]

\* OpenStep whose HOLD resizes the position to the target value
OpenStepHoldResizes(st, target, price) ==
    IF price[target.symbol] <= 0 THEN st
    ELSE LET opened == [symbol |-> target.symbol, side |-> target.side,
                        size |-> target.value \div price[target.symbol],
                        entry |-> price[target.symbol]]
         IN IF Has(st.positions, target.symbol)
            THEN LET pos == Get(st.positions, target.symbol)
                 IN IF pos.side = target.side
                    THEN [st EXCEPT !.positions = Put(@, [pos EXCEPT !.size = opened.size]),
                                    !.log = Append(@, [act |-> "HOLD", symbol |-> target.symbol])]
                    ELSE [positions |-> Put(st.positions, opened),
                          pnl |-> st.pnl + PositionPnl(pos, price[target.symbol]),
                          log |-> st.log \o <<[act |-> "REVERSE", symbol |-> target.symbol],
                                              [act |-> "OPEN", symbol |-> target.symbol]>>]
            ELSE [st EXCEPT !.positions = Put(@, opened),
                            !.log = Append(@, [act |-> "OPEN", symbol |-> target.symbol])]

\* one iteration of "Open/adjust positions in targets"
OpenStep(st, target, price) ==
    LET symbol == target.symbol
        current_price == price[symbol]
    IN IF current_price <= 0 THEN st
       ELSE LET target_size == target.value \div current_price
                opened == [symbol |-> symbol, side |-> target.side,
                           size |-> target_size, entry |-> current_price]
            IN IF Has(st.positions, symbol)
               THEN LET pos == Get(st.positions, symbol)
                    IN IF pos.side = target.side
                       THEN [st EXCEPT !.log =
                                Append(@, [act |-> "HOLD", symbol |-> symbol])]
                       ELSE [positions |-> Put(st.positions, opened),
                             pnl |-> st.pnl + PositionPnl(pos, current_price),
                             log |-> st.log \o
                                     <<[act |-> "REVERSE", symbol |-> symbol],
                                       [act |-> "OPEN", symbol |-> symbol]>>]
               ELSE [positions |-> Put(st.positions, opened),
                     pnl |-> st.pnl,
                     log |-> Append(st.log, [act |-> "OPEN", symbol |-> symbol])]

RECURSIVE OpenPass(_, _, _)
OpenPass(tgts, st, price) ==
    IF tgts = <<>> THEN st
    ELSE OpenPass(Tail(tgts), OpenStep(st, Head(tgts), price), price)

\* execute_paper_trade with its two loops in the other order
PaperPassesOpenFirst(positions, pnl, closeOrder, openOrder, tgts, price) ==
    LET st0 == [positions |-> positions, pnl |-> pnl, log |-> <<>>]
        opened == OpenPass(openOrder, st0, price)
    IN ClosePass(closeOrder, opened, tgts, price)

\* the two loops, the first over closeOrder and the second over openOrder
PaperPasses(positions, pnl, closeOrder, openOrder, tgts, price) ==
    LET st0 == [positions |-> positions, pnl |-> pnl, log |-> <<>>]
        closed == ClosePass(closeOrder, st0, tgts, price)
        \* the second loop tests membership in targets only through its own items
    IN OpenPass(openOrder, closed, price)

\* the code's order: list(self.paper_positions.keys()), then targets.items()
ExecutePaperTrade(positions, pnl, tgts, price) ==
    PaperPasses(positions, pnl, Keys(positions), tgts, tgts, price)

Reorder(s, p) == [i \in 1..Len(s) |-> s[p[i]]]

Orders(s) == {Reorder(s, p) : p \in Permutations(1..Len(s))}

\* the final ledgers of the pass over every order of the two loops
AllOrders(positions, pnl, tgts, price) ==
    {LET r == PaperPasses(positions, pnl, co, oo, tgts, price)
     IN [positions |-> AsMap(r.positions), pnl |-> r.pnl] :
        co \in Orders(Keys(positions)), oo \in Orders(tgts)}

-----------------------------------------------------------------------------
(* get_usdt_perp_symbols, get_klines, calculate_volatility,
   get_top_volatile_alts, calculate_target_positions *)

\* What get_instruments_info answers: it raises, or it lists the instruments;
\* "trading" stands for quoteCoin = USDT, status = Trading and
\* contractType = LinearPerpetual together.
InstrumentResponses ==
    {[raised |-> TRUE, list |-> <<>>]} \cup
    {[raised |-> FALSE,
      list |-> [i \in 1..Len(SymOrder) |->
                   [symbol |-> SymOrder[i], trading |-> SymOrder[i] \in T]]] :
        T \in SUBSET Symbols}

\* get_usdt_perp_symbols with the except clause left out
GetUsdtPerpSymbolsUncaught(resp) ==
    [raised |-> resp.raised,
     symbols |-> Keys(SelectSeq(resp.list, LAMBDA i : i.trading))]

\* raised: whether an exception leaves the method; symbols: what it returns
GetUsdtPerpSymbols(resp) ==
    IF resp.raised
    THEN [raised |-> FALSE, symbols |-> <<>>]
    ELSE [raised |-> FALSE,
          symbols |-> Keys(SelectSeq(resp.list, LAMBDA i : i.trading))]

\* What get_klines returns for one symbol: the number of rows of the frame
\* (0: the fetch raised, retCode # 0 or no klines) and the standard deviation
\* of its last LOOKBACK log returns.
Frames ==
    {[rows |-> 0, std |-> 0], [rows |-> LOOKBACK - 1, std |-> MaxVol]} \cup
    [rows : {LOOKBACK + 5}, std : {NaN} \cup 0..MaxVol]

\* calculate_volatility without the test of len(df) against LOOKBACK
CalculateVolatilityAnyLength(df) ==
    IF df.std # NaN THEN df.std ELSE 0

CalculateVolatility(df) ==
    IF df.rows < LOOKBACK THEN 0
    ELSE IF df.std # NaN THEN df.std ELSE 0

\* the loop of get_top_volatile_alts: volatilities, in listing order
RECURSIVE Volatilities(_, _)
Volatilities(symbols, klines) ==
    IF symbols = <<>> THEN <<>>
    ELSE LET symbol == Head(symbols)
             rest == Volatilities(Tail(symbols), klines)
         IN IF symbol = "BTCUSDT" THEN rest
            ELSE IF klines[symbol].rows = 0 THEN rest
            ELSE LET vol == CalculateVolatility(klines[symbol])
                 IN IF vol > 0
                    THEN <<[symbol |-> symbol, vol |-> vol]>> \o rest
                    ELSE rest

\* a descending sort that puts an element before the equal ones already seen
RECURSIVE SortDescendingTiesReversed(_, _)
SortDescendingTiesReversed(sorted, rest) ==
    IF rest = <<>> THEN sorted
    ELSE LET e == Head(rest)
         IN SortDescendingTiesReversed(
                SelectSeq(sorted, LAMBDA x : x.vol > e.vol) \o <<e>> \o
                SelectSeq(sorted, LAMBDA x : x.vol <= e.vol),
                Tail(rest))

\* list.sort(key = vol, reverse = True): stable, equal keys keep their order
RECURSIVE SortDescending(_, _)
SortDescending(sorted, rest) ==
    IF rest = <<>> THEN sorted
    ELSE LET e == Head(rest)
         IN SortDescending(
                SelectSeq(sorted, LAMBDA x : x.vol >= e.vol) \o <<e>> \o
                SelectSeq(sorted, LAMBDA x : x.vol < e.vol),
                Tail(rest))

\* volatilities[:N_SHORTS + 1]
TopNOneMore(volatilities) ==
    SubSeq(volatilities, 1, IF Len(volatilities) < N_SHORTS + 1
                            THEN Len(volatilities) ELSE N_SHORTS + 1)

\* volatilities[:N_SHORTS]
TopN(volatilities) ==
    SubSeq(volatilities, 1, IF Len(volatilities) < N_SHORTS
                            THEN Len(volatilities) ELSE N_SHORTS)

GetTopVolatileAlts(symbols, klines) ==
    TopN(SortDescending(<<>>, Volatilities(symbols, klines)))

\* the loop of calculate_target_positions with side "Buy" for "Sell"
RECURSIVE ShortEachBuys(_, _)
ShortEachBuys(tgts, top) ==
    IF top = <<>> THEN tgts
    ELSE ShortEachBuys(Put(tgts, [symbol |-> Head(top).symbol, side |-> "Buy",
                                  value |-> ShortValue]),
                       Tail(top))

RECURSIVE ShortEach(_, _)
ShortEach(tgts, top) ==
    IF top = <<>> THEN tgts
    ELSE ShortEach(Put(tgts, [symbol |-> Head(top).symbol, side |-> "Sell",
                              value |-> ShortValue]),
                   Tail(top))

CalculateTargetPositions(top) ==
    ShortEach(<<[symbol |-> "BTCUSDT", side |-> "Buy", value |-> LongValue]>>, top)

\* run_once with "len(top_volatile) < N_SHORTS - 1"
TooFewLenient(top) == Len(top) < N_SHORTS - 1

\* run_once: len(top_volatile) < N_SHORTS
TooFew(top) == Len(top) < N_SHORTS

-----------------------------------------------------------------------------
(* execute_live_trade *)

\* lotSizeFilter of every instrument: minOrderQty and qtyStep, one coin each
LotFilter == [minOrderQty |-> Unit, qtyStep |-> Unit]

\* round(n / d) for n >= 0: to the nearest integer, a half to the even one
Round(n, d) ==
    LET q == n \div d
        r == n % d
    IN IF 2 * r < d THEN q
       ELSE IF 2 * r > d THEN q + 1
       ELSE IF q % 2 = 0 THEN q ELSE q + 1

Max(a, b) == IF a >= b THEN a ELSE b

\* one iteration of "Close positions not in targets"; failed: the symbols
\* for which a call to the exchange raises
LiveCloseStep(st, pos, tgts, failed) ==
    IF Has(tgts, pos.symbol) \/ pos.symbol \in failed THEN st
    ELSE [exchange |-> Del(st.exchange, pos.symbol),
          orders |-> Append(st.orders,
                        [symbol |-> pos.symbol,
                         side |-> IF pos.side = "Buy" THEN "Sell" ELSE "Buy",
                         qty |-> pos.size, reduceOnly |-> TRUE])]

RECURSIVE LiveClosePass(_, _, _, _)
LiveClosePass(current, st, tgts, failed) ==
    IF current = <<>> THEN st
    ELSE LiveClosePass(Tail(current), LiveCloseStep(st, Head(current), tgts, failed),
                       tgts, failed)

\* one iteration of "Open new positions"; a price of 0 raises ZeroDivisionError
LiveOpenStep(st, target, current_positions, price, failed) ==
    IF Has(current_positions, target.symbol) THEN st
    ELSE IF target.symbol \in failed \/ price[target.symbol] = 0 THEN st
    ELSE LET qty == Max(LotFilter.minOrderQty,
                        Round(target.value \div price[target.symbol],
                              LotFilter.qtyStep) * LotFilter.qtyStep)
         IN [exchange |-> Put(st.exchange, [symbol |-> target.symbol,
                                            side |-> target.side, size |-> qty]),
             orders |-> Append(st.orders,
                           [symbol |-> target.symbol, side |-> target.side,
                            qty |-> qty, reduceOnly |-> FALSE])]

RECURSIVE LiveOpenPass(_, _, _, _, _)
LiveOpenPass(tgts, st, current_positions, price, failed) ==
    IF tgts = <<>> THEN st
    ELSE LiveOpenPass(Tail(tgts),
                      LiveOpenStep(st, Head(tgts), current_positions, price, failed),
                      current_positions, price, failed)

\* listed: whether get_positions answered
ExecuteLiveTrade(exch, tgts, listed, price, failed) ==
    IF ~listed THEN [exchange |-> exch, orders |-> <<>>]
    ELSE LET st0 == [exchange |-> exch, orders |-> <<>>]
             closed == LiveClosePass(exch, st0, tgts, failed)
         IN LiveOpenPass(tgts, closed, exch, price, failed)

-----------------------------------------------------------------------------
(* get_next_rebalance_time *)

\* the 60 s buffer of run_loop is one tick of the clock
BUFFER == 1

\* ticks in an hour of the model's clock
TicksPerHour == 2

TicksPerDay == 24 * TicksPerHour

\* get_next_rebalance_time that wraps next_hour to 0 and stays on today's date
GetNextRebalanceTimeSameDay(t) ==
    LET day == t \div TicksPerDay
        current_hour == (t % TicksPerDay) \div TicksPerHour
        next_hour == ((current_hour \div 4) + 1) * 4
    IN day * TicksPerDay + (IF next_hour >= 24 THEN 0 ELSE next_hour) * TicksPerHour

\* get_next_rebalance_time that rounds the hour up to a multiple of 4, so that
\* an hour which is one already is its own next mark
GetNextRebalanceTimeRoundsUp(t) ==
    LET day == t \div TicksPerDay
        current_hour == (t % TicksPerDay) \div TicksPerHour
        next_hour == ((current_hour + 3) \div 4) * 4
    IN IF next_hour >= 24
       THEN (day + 1) * TicksPerDay
       ELSE day * TicksPerDay + next_hour * TicksPerHour

GetNextRebalanceTime(t) ==
    LET day == t \div TicksPerDay
        current_hour == (t % TicksPerDay) \div TicksPerHour
        next_hour == ((current_hour \div 4) + 1) * 4
    IN IF next_hour >= 24
       THEN (day + 1) * TicksPerDay
       ELSE day * TicksPerDay + next_hour * TicksPerHour

-----------------------------------------------------------------------------
(* A single reconciliation pass on any ledger, and the same pass run again *)

\* the symbols the single-pass specification draws ledgers and targets from
PassSymbols == {REF, "AAAUSDT", "BBBUSDT"}

ValueOf(side) == IF side = "Buy" THEN LongValue ELSE ShortValue

PositionEntry(s, c) ==
    [symbol |-> s, side |-> c.side, size |-> ValueOf(c.side) \div c.entry,
     entry |-> c.entry]

TargetEntry(s, side) == [symbol |-> s, side |-> side, value |-> ValueOf(side)]

\* a position for the symbols f gives a side (f[s].side = "none": no position)
LedgerOf(f) ==
    LET held == SelectSeq(SymOrder, LAMBDA s : s \in DOMAIN f /\ f[s].side \in Sides)
    IN [i \in 1..Len(held) |-> PositionEntry(held[i], f[held[i]])]

TargetsOf(f) ==
    LET aimed == SelectSeq(SymOrder, LAMBDA s : s \in DOMAIN f /\ f[s] \in Sides)
    IN [i \in 1..Len(aimed) |-> TargetEntry(aimed[i], f[aimed[i]])]

PositionChoices ==
    [side : Sides, entry : 1..MaxPrice] \cup {[side |-> "none", entry |-> 0]}

Ledgers == {LedgerOf(f) : f \in [PassSymbols -> PositionChoices]}

TargetDicts == {TargetsOf(f) : f \in [PassSymbols -> Sides \cup {"none"}]}

PriceMaps == {[s \in Symbols |-> IF s \in PassSymbols THEN f[s] ELSE 0] :
                 f \in [PassSymbols -> Prices]}

NoPrices == [s \in Symbols |-> 0]

\* no candle fetched yet
NoKlines == [s \in Alts |-> [rows |-> 0, std |-> 0]]

\* self.execute_paper_trade(tgts) with get_current_price answering price
PaperTrade(tgts, price) ==
    LET r == ExecutePaperTrade(paper_positions, paper_pnl, tgts, price)
    IN /\ paper_positions' = r.positions
       /\ paper_pnl' = r.pnl
       /\ actions' = r.log
       /\ targets' = tgts
       /\ prices' = price
       /\ prevPositions' = paper_positions
       /\ prevPnl' = paper_pnl

InitPass ==
    /\ paper_positions \in Ledgers
    /\ paper_pnl = 0
    /\ targets = <<>>
    /\ prices = NoPrices
    /\ actions = <<>>
    /\ prevPositions = <<>>
    /\ prevPnl = 0
    /\ PAPER_TRADE = TRUE
    /\ exchange = <<>>
    /\ orders = <<>>
    /\ top_volatile = <<>>
    /\ perp_symbols = <<>>
    /\ candles = NoKlines
    /\ faults = {}
    /\ cycles = 0
    /\ lastStart = 0
    /\ lastReturn = 0
    /\ now = 0
    /\ next_rebalance = 0
    /\ wait_seconds = 0
    /\ pc = "pass"

FirstPass ==
    /\ pc = "pass"
    /\ \E tgts \in TargetDicts, price \in PriceMaps : PaperTrade(tgts, price)
    /\ pc' = "again"
    /\ UNCHANGED botVars

\* the same targets and the same prices once more
SecondPass ==
    /\ pc = "again"
    /\ PaperTrade(targets, prices)
    /\ pc' = "twice"
    /\ UNCHANGED botVars

NextPass == FirstPass \/ SecondPass

SpecPass == InitPass /\ [][NextPass]_vars

-----------------------------------------------------------------------------
(* run_loop: one cycle at once, then one after every sleep.

   The steps take what the environment may answer as parameters: Spec lets the
   market answer anything and keeps the clock still while the thread computes;
   SpecLoop lets the clock advance anywhere and keeps the market small. *)

MaxCycles == 2

\* ticks the ranking of one cycle may take
MaxRankTicks == 1

\* ticks that may pass between the two clock reads of run_loop
MaxGap == 1

\* calls to the exchange that may raise in one live execution
MaxFailures == 1

\* 23:30 of the first day
LastTick == TicksPerDay - 1

\* the process is started in the last hours of a day
StartInstants == (22 * TicksPerHour)..LastTick

\* the account live mode starts with: empty, or holding positions of its own
InitExchanges ==
    {<<>>,
     <<[symbol |-> "BTCUSDT", side |-> "Sell", size |-> Unit],
       [symbol |-> "CCCUSDT", side |-> "Buy", size |-> Unit]>>}

\* price lookups for the symbols of S; the others are not looked up
PricesFor(S, levels) ==
    {[s \in Symbols |-> IF s \in S THEN f[s] ELSE 0] : f \in [S -> levels]}

\* candle answers for the alts of S; the others are not fetched
KlinesFor(S, frames) ==
    {[s \in Alts |-> IF s \in S THEN f[s] ELSE [rows |-> 0, std |-> 0]] :
        f \in [S \cap Alts -> frames]}

\* the small market: the listing raises or lists everything, a candle fetch
\* fails or shows volatility 1, a price is unavailable or 1
LoopResponses ==
    {r \in InstrumentResponses :
        r.raised \/ \A i \in 1..Len(r.list) : r.list[i].trading}

LoopFrames == {[rows |-> 0, std |-> 0], [rows |-> LOOKBACK + 5, std |-> 1]}

LoopPrices == 0..1

InitAt(instants) ==
    /\ paper_positions = <<>>
    /\ paper_pnl = 0
    /\ targets = <<>>
    /\ prices = NoPrices
    /\ actions = <<>>
    /\ prevPositions = <<>>
    /\ prevPnl = 0
    /\ PAPER_TRADE \in BOOLEAN
    /\ exchange \in IF PAPER_TRADE THEN {<<>>} ELSE InitExchanges
    /\ orders = <<>>
    /\ top_volatile = <<>>
    /\ perp_symbols = <<>>
    /\ candles = NoKlines
    /\ faults = {}
    /\ cycles = 0
    /\ now \in instants
    /\ lastStart = now
    /\ lastReturn = now
    /\ next_rebalance = 0
    /\ wait_seconds = 0
    /\ pc = "run_once"

Listed(symbols) == {symbols[i] : i \in 1..Len(symbols)}

\* run_once up to the execution step: ranking, the universe check, targets
Rank(responses, frames, ticks) ==
    /\ pc = "run_once"
    /\ cycles < MaxCycles
    /\ \E resp \in responses, d \in 0..ticks :
         LET listing == GetUsdtPerpSymbols(resp) IN
         \E klines \in KlinesFor(Listed(listing.symbols), frames) :
            LET top == GetTopVolatileAlts(listing.symbols, klines)
                unfetched == {x \in Alts \cap Listed(listing.symbols) :
                                klines[x].rows = 0}
            IN /\ cycles' = cycles + 1
               /\ lastStart' = now
               /\ now' = now + d
               /\ lastReturn' = IF TooFew(top) THEN now' ELSE lastReturn
               /\ orders' = <<>>
               /\ top_volatile' = IF listing.raised THEN <<>> ELSE top
               /\ targets' = IF listing.raised \/ TooFew(top)
                             THEN <<>> ELSE CalculateTargetPositions(top)
               \* an exception that leaves run_once ends run_loop and the process
               /\ pc' = IF listing.raised THEN "crashed"
                         ELSE IF TooFew(top) THEN "next_time" ELSE "execute"
               /\ faults' = (IF resp.raised THEN {"listing"} ELSE {})
                             \cup (IF unfetched # {} THEN {"candles"} ELSE {})
                             \cup (IF TooFew(top) THEN {"insufficient"} ELSE {})
    /\ UNCHANGED <<callVars, paper_positions, paper_pnl, prices, actions, prevPositions,
                   prevPnl, PAPER_TRADE, exchange, next_rebalance, wait_seconds>>

\* run_once: execute_paper_trade(targets); the unrealized PnL it then logs
\* changes nothing
ExecutePaper(levels) ==
    /\ pc = "execute"
    /\ PAPER_TRADE
    /\ \E price \in PricesFor(KeySet(paper_positions) \cup KeySet(targets), levels) :
         /\ PaperTrade(targets, price)
         /\ faults' = faults \cup
                (IF \E s \in KeySet(paper_positions) \cup KeySet(targets) : price[s] = 0
                 THEN {"price"} ELSE {})
    /\ pc' = "next_time"
    /\ lastReturn' = now
    /\ UNCHANGED <<callVars, PAPER_TRADE, exchange, orders, top_volatile, cycles, lastStart,
                   now, next_rebalance, wait_seconds>>

\* run_once: execute_live_trade(targets)
ExecuteLive(levels) ==
    /\ pc = "execute"
    /\ ~PAPER_TRADE
    /\ \E listed \in BOOLEAN :
       LET opened == IF listed THEN KeySet(targets) \ KeySet(exchange) ELSE {}
           closed == IF listed THEN KeySet(exchange) \ KeySet(targets) ELSE {}
       IN
       \E price \in PricesFor(opened, levels) :
       \E failed \in {F \in SUBSET (opened \cup closed) : Cardinality(F) <= MaxFailures} :
         LET r == ExecuteLiveTrade(exchange, targets, listed, price, failed)
         IN /\ exchange' = r.exchange
            /\ orders' = r.orders
            /\ prices' = price
            /\ faults' = faults
                   \cup (IF listed THEN {} ELSE {"positions"})
                   \cup (IF failed # {} THEN {"order"} ELSE {})
                   \cup (IF \E s \in opened \ failed : price[s] = 0
                         THEN {"price"} ELSE {})
    /\ pc' = "next_time"
    /\ lastReturn' = now
    /\ UNCHANGED <<callVars, paper_positions, paper_pnl, targets, actions, prevPositions,
                   prevPnl, PAPER_TRADE, top_volatile, cycles, lastStart, now,
                   next_rebalance, wait_seconds>>

\* run_loop: next_rebalance = self.get_next_rebalance_time(); run_once has
\* returned, its locals are gone and what was observed of the cycle is dropped
NextTime ==
    /\ pc = "next_time"
    /\ next_rebalance' = GetNextRebalanceTime(now)
    /\ pc' = "wait"
    /\ targets' = <<>>
    /\ top_volatile' = <<>>
    /\ prices' = NoPrices
    /\ actions' = <<>>
    /\ orders' = <<>>
    /\ faults' = {}
    /\ prevPositions' = <<>>
    /\ prevPnl' = 0
    /\ UNCHANGED <<callVars, paper_positions, paper_pnl, PAPER_TRADE, exchange,
                   cycles, lastStart, lastReturn, now, wait_seconds>>

\* run_loop: the second clock read, wait_seconds and its test
Wait(ticks) ==
    /\ pc = "wait"
    /\ \E gap \in 0..ticks :
         /\ now' = now + gap
         /\ wait_seconds' = next_rebalance - now'
    /\ pc' = IF wait_seconds' > 0 THEN "sleep" ELSE "run_once"
    /\ UNCHANGED <<callVars, ledgerVars, PAPER_TRADE, exchange, orders, top_volatile, faults,
                   cycles, lastStart, lastReturn, next_rebalance>>

\* run_loop: time.sleep(wait_seconds + 60)
Sleep ==
    /\ pc = "sleep"
    /\ now' = now + wait_seconds + BUFFER
    /\ pc' = "run_once"
    /\ UNCHANGED <<callVars, ledgerVars, PAPER_TRADE, exchange, orders, top_volatile, faults,
                   cycles, lastStart, lastReturn, next_rebalance, wait_seconds>>

Init == InitAt({LastTick})

Next ==
    \/ Rank(InstrumentResponses, Frames, 0)
    \/ ExecutePaper(Prices)
    \/ ExecuteLive(Prices)
    \/ NextTime
    \/ Wait(0)
    \/ Sleep

Spec == Init /\ [][Next]_vars

InitLoop == InitAt(StartInstants)

NextLoop ==
    \/ Rank(LoopResponses, LoopFrames, MaxRankTicks)
    \/ ExecutePaper(LoopPrices)
    \/ ExecuteLive(LoopPrices)
    \/ NextTime
    \/ Wait(MaxGap)
    \/ Sleep

SpecLoop == InitLoop /\ [][NextLoop]_vars

\* the thread is never held up for ever: a step that can be taken is taken
FairLoop == SpecLoop /\ WF_vars(NextLoop)

-----------------------------------------------------------------------------
(* A single call of get_top_volatile_alts, of calculate_target_positions or
   of get_next_rebalance_time, on any input *)

\* the ranked lists calculate_target_positions may be given: distinct alts
\* with a volatility above 0, sorted by descending volatility, of any length
RankedLists ==
    {r \in UNION {[1..n -> [symbol : Alts, vol : 1..MaxVol]] :
                     n \in 0..Cardinality(Alts)} :
        \A i, j \in 1..Len(r) :
            i < j => r[i].symbol # r[j].symbol /\ r[i].vol >= r[j].vol}

\* the instants of two days
Instants == 0..(2 * TicksPerDay - 1)

InitCalls ==
    /\ paper_positions = <<>>
    /\ paper_pnl = 0
    /\ targets = <<>>
    /\ prices = NoPrices
    /\ actions = <<>>
    /\ prevPositions = <<>>
    /\ prevPnl = 0
    /\ PAPER_TRADE = TRUE
    /\ exchange = <<>>
    /\ orders = <<>>
    /\ faults = {}
    /\ cycles = 0
    /\ lastStart = 0
    /\ lastReturn = 0
    /\ next_rebalance = 0
    /\ wait_seconds = 0
    /\ pc \in {"rank", "allocate", "clock"}
    /\ perp_symbols \in IF pc = "rank"
                        THEN {GetUsdtPerpSymbols(resp).symbols :
                                 resp \in InstrumentResponses}
                        ELSE {<<>>}
    /\ candles \in IF pc = "rank"
                   THEN KlinesFor(Listed(perp_symbols), Frames)
                   ELSE {NoKlines}
    /\ top_volatile \in IF pc = "allocate" THEN RankedLists ELSE {<<>>}
    /\ now \in IF pc = "clock" THEN Instants ELSE {0}

\* top_volatile = self.get_top_volatile_alts()
CallGetTopVolatileAlts ==
    /\ pc = "rank"
    /\ top_volatile' = GetTopVolatileAlts(perp_symbols, candles)
    /\ pc' = "ranked"
    /\ UNCHANGED <<ledgerVars, PAPER_TRADE, exchange, orders, faults, cycles,
                   lastStart, lastReturn, now, next_rebalance, wait_seconds,
                   callVars>>

\* targets = self.calculate_target_positions(top_volatile)
CallCalculateTargetPositions ==
    /\ pc = "allocate"
    /\ targets' = CalculateTargetPositions(top_volatile)
    /\ pc' = "allocated"
    /\ UNCHANGED <<paper_positions, paper_pnl, prices, actions, prevPositions,
                   prevPnl, botVars>>

\* next_rebalance = self.get_next_rebalance_time()
CallGetNextRebalanceTime ==
    /\ pc = "clock"
    /\ next_rebalance' = GetNextRebalanceTime(now)
    /\ pc' = "clocked"
    /\ UNCHANGED <<ledgerVars, PAPER_TRADE, exchange, orders, top_volatile, faults,
                   cycles, lastStart, lastReturn, now, wait_seconds, callVars>>

NextCalls ==
    \/ CallGetTopVolatileAlts
    \/ CallCalculateTargetPositions
    \/ CallGetNextRebalanceTime

SpecCalls == InitCalls /\ [][NextCalls]_vars

-----------------------------------------------------------------------------
(* Properties of one reconciliation pass *)

RECURSIVE Sum(_)
Sum(f) ==
    IF DOMAIN f = {} THEN 0
    ELSE LET x == CHOOSE x \in DOMAIN f : TRUE
         IN f[x] + Sum([y \in DOMAIN f \ {x} |-> f[y]])

\* a pass of execute_paper_trade has just returned
PassDone ==
    \/ pc \in {"again", "twice"}
    \/ pc = "next_time" /\ PAPER_TRADE /\ targets # <<>>

\* the symbols whose price the two loops of the last pass looked up
Looked == KeySet(prevPositions) \cup KeySet(targets)

\* previously open symbols absent from the targets of the last pass
Closed == KeySet(prevPositions) \ KeySet(targets)

\* target symbols the last pass found on the opposite side, with a price
Reversed ==
    {s \in KeySet(prevPositions) \cap KeySet(targets) :
        prices[s] > 0 /\ Get(prevPositions, s).side # Get(targets, s).side}

Unpriced == {s \in KeySet(targets) : prices[s] = 0}

PnlAt(S) == Sum([s \in S |-> PositionPnl(Get(prevPositions, s), prices[s])])

\* C1: after a paper pass in which every price lookup returned a positive
\* price, the symbols of paper_positions are exactly the symbols of the targets
\* of that pass, whatever the ledger held before.
C1_PositionsMatchTargets ==
    (PassDone /\ \A s \in Looked : prices[s] > 0)
        => KeySet(paper_positions) = KeySet(targets)

C1_Witness ==
    /\ pc = "again"
    /\ \A s \in Looked : prices[s] > 0
    /\ Closed # {}
    /\ KeySet(targets) \ KeySet(prevPositions) # {}
    /\ KeySet(targets) \cap KeySet(prevPositions) # {}

\* C2 (as claimed): whatever the price lookups return, every position a pass
\* removes because its symbol is absent from the targets adds its PnL at the
\* current price to paper_pnl in that pass; with the PnL of the reversed
\* positions, that is all the pass adds.
C2_ClosedPnlRealized ==
    PassDone => paper_pnl = prevPnl + PnlAt(Closed) + PnlAt(Reversed)

\* C3: a target symbol whose price is unavailable is left alone: its position,
\* if any, keeps side, size and entry, none is created, nothing is logged or
\* realized for it, and the priced targets are still processed.
C3_UnpricedTargetSkipped ==
    PassDone =>
        /\ \A s \in Unpriced :
              /\ Has(paper_positions, s) <=> Has(prevPositions, s)
              /\ Has(prevPositions, s) =>
                    Get(paper_positions, s) = Get(prevPositions, s)
              /\ \A i \in 1..Len(actions) : actions[i].symbol # s
        /\ paper_pnl = prevPnl + PnlAt({s \in Closed : prices[s] > 0}) + PnlAt(Reversed)
        /\ \A t \in KeySet(targets) \ Unpriced :
              /\ Has(paper_positions, t)
              /\ Get(paper_positions, t).side = Get(targets, t).side

C3_Witness ==
    /\ pc = "again"
    /\ \E s \in Unpriced : Has(prevPositions, s) /\ Has(paper_positions, s)
    /\ \E s \in Unpriced : ~Has(prevPositions, s)
    /\ \E t \in KeySet(targets) \ Unpriced : ~Has(prevPositions, t)

HoldLines(tgts) == [i \in 1..Len(tgts) |-> [act |-> "HOLD", symbol |-> tgts[i].symbol]]

LedgerUntouched == paper_pnl = prevPnl /\ paper_positions = prevPositions

\* C4 (as claimed): the second run with the same targets and prices yields
\* HOLD for every target symbol and leaves paper_pnl and every position as
\* the first run left them.
C4_SecondRunHoldsAll ==
    pc = "twice" => actions = HoldLines(targets) /\ LedgerUntouched

\* C4 (amended): the second run yields HOLD for every target symbol whose
\* price is available and nothing for the others, and leaves paper_pnl and
\* every position as the first run left them.
C4_SecondRunHoldsPriced ==
    pc = "twice" =>
        /\ actions = HoldLines(SelectSeq(targets, LAMBDA t : prices[t.symbol] > 0))
        /\ LedgerUntouched

C4_Witness ==
    /\ pc = "twice"
    /\ Unpriced # {}
    /\ Len(actions) >= 2
    /\ paper_pnl # 0

\* C10: for fixed previous positions, targets and prices, every order of the
\* close loop and every order of the open loop ends in the same
\* paper_positions and the same paper_pnl.
C10_OrderIndependent ==
    PassDone =>
        AllOrders(prevPositions, prevPnl, targets, prices)
            = {[positions |-> AsMap(paper_positions), pnl |-> paper_pnl]}

C10_Witness ==
    /\ pc = "again"
    /\ \E s, t \in Closed :
          /\ s # t /\ prices[s] > 0 /\ prices[t] > 0
          /\ PnlAt({s}) # 0 /\ PnlAt({t}) # PnlAt({s}) /\ PnlAt({t}) # 0
    /\ \E s \in Reversed : PnlAt({s}) # 0

\* the position the last pass opens for target symbol s at the price it saw
OpenedAt(s) ==
    [symbol |-> s, side |-> Get(targets, s).side,
     size |-> Get(targets, s).value \div prices[s], entry |-> prices[s]]

\* target symbols the last pass found on the target side, with a price
Held ==
    {s \in KeySet(prevPositions) \cap KeySet(targets) :
        prices[s] > 0 /\ Get(prevPositions, s).side = Get(targets, s).side}

Logged(act, s) == \E i \in 1..Len(actions) : actions[i] = [act |-> act, symbol |-> s]

\* C11: a target symbol held on the opposite side, with a price p > 0, is
\* reversed: the pass adds (entry - p) * size for an old Short and
\* (p - entry) * size for an old Long to paper_pnl, and the symbol then has
\* exactly one position, on the target side, of size value / p, entered at p.
C11_ReverseRealizesAndReplaces ==
    PassDone =>
        /\ \A s \in Reversed :
              /\ Cardinality({i \in 1..Len(paper_positions) :
                                 paper_positions[i].symbol = s}) = 1
              /\ Get(paper_positions, s) = OpenedAt(s)
              /\ OpenedAt(s).size * prices[s] = Get(targets, s).value
              /\ Logged("REVERSE", s)
        /\ paper_pnl - prevPnl - PnlAt({s \in Closed : prices[s] > 0})
              = Sum([s \in Reversed |->
                       LET old == Get(prevPositions, s)
                       IN IF old.side = "Sell"
                          THEN (old.entry - prices[s]) * old.size
                          ELSE (prices[s] - old.entry) * old.size])

C11_Witness ==
    /\ pc = "again"
    /\ \E s, t \in Reversed :
          /\ Get(prevPositions, s).side = "Sell" /\ prices[s] < Get(prevPositions, s).entry
          /\ Get(prevPositions, t).side = "Buy" /\ prices[t] < Get(prevPositions, t).entry

\* C17: a target symbol already held on the target side keeps its position,
\* side, size and entry, and adds nothing to paper_pnl, also when the price
\* has moved from the entry and the target value would give another size.
C17_HoldMutatesNothing ==
    PassDone =>
        /\ \A s \in Held :
              /\ Get(paper_positions, s) = Get(prevPositions, s)
              /\ Logged("HOLD", s)
              /\ ~Logged("OPEN", s) /\ ~Logged("REVERSE", s) /\ ~Logged("CLOSE", s)
        /\ paper_pnl = prevPnl + PnlAt({s \in Closed : prices[s] > 0}) + PnlAt(Reversed)

C17_Witness ==
    /\ pc = "again"
    /\ \E s \in Held :
          /\ prices[s] # Get(prevPositions, s).entry
          /\ OpenedAt(s).size # Get(prevPositions, s).size
          /\ PnlAt({s}) # 0
    /\ Reversed # {}

-----------------------------------------------------------------------------
(* Properties of run_once and run_loop *)

Longs(tgts) == {i \in 1..Len(tgts) : tgts[i].side = "Buy"}

Shorts(tgts) == {i \in 1..Len(tgts) : tgts[i].side = "Sell"}

\* C5: every targets map run_once hands to the execution step has exactly one
\* Buy entry, BTCUSDT with value CAPITAL, and exactly N_SHORTS Sell entries,
\* each with value CAPITAL / N_SHORTS, on N_SHORTS distinct symbols other
\* than BTCUSDT.
C5_TargetsShape ==
    pc = "execute" =>
        /\ Cardinality(Longs(targets)) = 1
        /\ \A i \in Longs(targets) :
              targets[i].symbol = "BTCUSDT" /\ targets[i].value = CAPITAL * Unit
        /\ Cardinality(Shorts(targets)) = N_SHORTS
        /\ \A i \in Shorts(targets) :
              /\ targets[i].value * N_SHORTS = CAPITAL * Unit
              /\ targets[i].symbol # "BTCUSDT"
        /\ Cardinality({targets[i].symbol : i \in Shorts(targets)}) = N_SHORTS
        /\ Len(targets) = N_SHORTS + 1

C5_Witness ==
    /\ pc = "execute"
    /\ cycles = 2
    /\ Len(paper_positions) = N_SHORTS + 1
    /\ KeySet(targets) # KeySet(paper_positions)
    /\ top_volatile[1].vol > top_volatile[2].vol

\* C6: a cycle in which fewer than N_SHORTS alts are rankable, the listing
\* failure included, rebalances nothing: run_once returns to the loop without
\* targets, with the ledger and the account as they were and no order placed.
C6_TooFewNoRebalance ==
    [][(pc = "run_once" /\ cycles' = cycles + 1 /\ Len(top_volatile') < N_SHORTS)
          => /\ pc' = "next_time"
             /\ targets' = <<>>
             /\ paper_positions' = paper_positions
             /\ paper_pnl' = paper_pnl
             /\ exchange' = exchange
             /\ orders' = <<>>]_vars

C6_Witness ==
    /\ pc = "next_time"
    /\ cycles = 2
    /\ faults = {"insufficient"}
    /\ Len(top_volatile) = N_SHORTS - 1
    /\ paper_positions # <<>>
    /\ targets = <<>>

\* the 4-hour window of the day an instant lies in, counted from the epoch
Block(t) == t \div (4 * TicksPerHour)

\* a cycle other than the first is about to start (run_once is entered next)
Restart == pc = "run_once" /\ cycles >= 1

\* C7 (as claimed): every boundary that passes while the process runs has a
\* cycle started in the 4 hours after it, that is, no 4-hour window lies
\* wholly between two successive cycle starts.
C7_EveryBoundaryServed ==
    Restart => Block(now) <= Block(lastStart) + 1

\* C7 (amended): one cycle runs at start, and each later cycle starts in the
\* 4-hour window that follows the window in which the cycle before it
\* returned; a boundary passed while a cycle runs gets no cycle of its own.
C7_NextWindowAfterReturn ==
    /\ cycles = 0 => pc = "run_once" /\ lastStart = now
    /\ Restart => Block(now) = Block(lastReturn) + 1

C7_Witness ==
    /\ Restart
    /\ Block(lastReturn) = Block(lastStart) + 1
    /\ now < TicksPerDay + 9 * TicksPerHour

\* C8 (as claimed): no cycle other than the first starts earlier than 60 s
\* after the boundary run_loop computed for it, whatever time passes between
\* the two clock reads.
C8_BufferRespected ==
    Restart => now >= next_rebalance + BUFFER

\* C9: whatever went wrong in a cycle, run_once returns to the loop, and
\* after every cycle the loop starts a further one.
C9_LoopNeverStops ==
    /\ [](pc # "crashed")
    /\ [](pc = "execute" => <>(pc = "next_time"))
    /\ \A k \in 0..(MaxCycles - 1) : (cycles = k) ~> (cycles = k + 1)

\* a second cycle is under way with a ledger that a failed price lookup of
\* the first cycle left short of a position
C9_Witness ==
    /\ cycles = 2
    /\ pc = "execute"
    /\ paper_positions # <<>>
    /\ Len(paper_positions) < N_SHORTS + 1

\* C19: in paper mode, starting from the empty ledger, a position on BTCUSDT
\* is always a Buy and a position on any other symbol always a Sell, and no
\* pass ever takes the REVERSE branch.
C19_SidesFixedNoReverse ==
    PAPER_TRADE =>
        /\ \A i \in 1..Len(paper_positions) :
              paper_positions[i].side =
                  IF paper_positions[i].symbol = "BTCUSDT" THEN "Buy" ELSE "Sell"
        /\ \A i \in 1..Len(actions) : actions[i].act # "REVERSE"
        /\ PassDone => Reversed = {}

C19_Witness ==
    /\ cycles = 2
    /\ PassDone
    /\ "BTCUSDT" \in Held
    /\ \E s \in Held \ {"BTCUSDT"} : prices[s] # Get(prevPositions, s).entry
    /\ \E s \in Alts : Logged("OPEN", s)

\* target symbols the last pass found held but could not price
HeldUnpriced == {s \in KeySet(prevPositions) \cap KeySet(targets) : prices[s] = 0}

\* C20: after a paper pass, whatever the price lookups returned, every open
\* position is on a symbol of that pass's targets, so there are at most
\* N_SHORTS + 1 of them; every entry price is above 0, and it is the price seen
\* by the pass that opened the position: this pass's price if the pass opened
\* it, the unchanged earlier entry otherwise.
C20_NoStrayEntryIsOpeningPrice ==
    /\ \A i \in 1..Len(paper_positions) : paper_positions[i].entry > 0
    /\ PassDone =>
          /\ KeySet(paper_positions) \subseteq KeySet(targets)
          /\ Len(paper_positions) <= N_SHORTS + 1
          /\ \A i \in 1..Len(paper_positions) :
                LET pos == paper_positions[i]
                IN IF pos.symbol \in Held \cup HeldUnpriced
                   THEN pos = Get(prevPositions, pos.symbol)
                   ELSE pos.entry = prices[pos.symbol]

C20_Witness ==
    /\ cycles = 2
    /\ PassDone
    /\ \E s \in Closed : prices[s] = 0
    /\ HeldUnpriced # {}
    /\ \E i \in 1..Len(paper_positions) :
          /\ paper_positions[i].symbol \notin KeySet(prevPositions)
          /\ paper_positions[i].entry = MaxPrice

\* execute_live_trade has just returned
LiveDone == pc = "next_time" /\ ~PAPER_TRADE /\ targets # <<>>

\* C14 (as claimed): live mode reverses a targeted symbol the account holds on
\* the opposite side, so that after a live cycle in which no call to the
\* exchange failed every held target symbol is on its target side.
C14_LiveReversesOpposite ==
    (LiveDone /\ faults \cap {"positions", "order", "price"} = {}) =>
        \A s \in KeySet(exchange) \cap KeySet(targets) :
            Get(exchange, s).side = Get(targets, s).side

\* no symbol has two entries in d
OnePerSymbol(d) ==
    \A i, j \in 1..Len(d) : d[i].symbol = d[j].symbol => i = j

\* the ledger after the first k iterations of the close loop of the last pass
AfterCloses(k) ==
    ClosePass(SubSeq(Keys(prevPositions), 1, k),
              [positions |-> prevPositions, pnl |-> prevPnl, log |-> <<>>],
              targets, prices)

\* the ledger after the close loop and the first m iterations of the open loop
AfterOpens(m) ==
    OpenPass(SubSeq(targets, 1, m), AfterCloses(Len(prevPositions)), prices)

\* C15: in a pass, paper or live, no CLOSE comes after an OPEN or a REVERSE:
\* when the first target is processed no symbol absent from the targets is
\* left in the paper ledger, every close order precedes every opening order,
\* and no symbol ever has two positions.
C15_ClosesBeforeOpens ==
    /\ PassDone =>
          /\ \A i, j \in 1..Len(actions) :
                (actions[i].act \in {"OPEN", "REVERSE"} /\ actions[j].act = "CLOSE")
                    => j < i
          /\ KeySet(AfterCloses(Len(prevPositions)).positions) \subseteq KeySet(targets)
          /\ \A k \in 0..Len(prevPositions) : OnePerSymbol(AfterCloses(k).positions)
          /\ \A m \in 0..Len(targets) : OnePerSymbol(AfterOpens(m).positions)
          /\ AfterOpens(Len(targets)).positions = paper_positions
    /\ LiveDone =>
          /\ \A i, j \in 1..Len(orders) :
                (~orders[i].reduceOnly /\ orders[j].reduceOnly) => j < i
          /\ OnePerSymbol(exchange)

C15_Witness ==
    /\ cycles = 2
    /\ PassDone
    /\ Logged("HOLD", "BTCUSDT")
    /\ \E x, y \in Alts : Logged("CLOSE", x) /\ Logged("OPEN", y)

-----------------------------------------------------------------------------
(* Properties of single calls *)

Min(a, b) == IF a <= b THEN a ELSE b

RankedSymbols == {top_volatile[i].symbol : i \in 1..Len(top_volatile)}

\* the symbols the claim calls unrankable, for the call's listing and candles
Unrankable ==
    {s \in Symbols :
        \/ s = "BTCUSDT"
        \/ candles[s].rows = 0
        \/ candles[s].rows < LOOKBACK
        \/ candles[s].std = NaN}

\* the listed alts with LOOKBACK candles or more and a volatility above 0
RankableAlts ==
    {s \in Listed(perp_symbols) \ Unrankable : candles[s].std > 0}

\* C12: BTCUSDT, a symbol whose candle fetch failed or was empty, one with
\* fewer than LOOKBACK candles and one whose volatility is not a number are
\* neither in the output of get_top_volatile_alts nor in the shorts built from
\* it, and leaving them out does not stop the others from being ranked.
C12_UnrankableExcluded ==
    pc = "ranked" =>
        /\ RankedSymbols \cap Unrankable = {}
        /\ LET tgts == CalculateTargetPositions(top_volatile)
           IN \A i \in Shorts(tgts) : tgts[i].symbol \notin Unrankable
        /\ RankedSymbols \subseteq RankableAlts
        /\ Len(top_volatile) = Min(N_SHORTS, Cardinality(RankableAlts))
        /\ \A i \in 1..Len(top_volatile) :
              top_volatile[i].vol = candles[top_volatile[i].symbol].std

C12_Witness ==
    /\ pc = "ranked"
    /\ perp_symbols = SymOrder
    /\ candles["AAAUSDT"].rows \in 1..(LOOKBACK - 1)
    /\ candles["AAAUSDT"].std > 0
    /\ candles["BBBUSDT"].rows >= LOOKBACK
    /\ candles["BBBUSDT"].std = NaN
    /\ RankedSymbols = {"CCCUSDT"}

\* the instants whose UTC time of day is 00:00, 04:00, ..., 20:00
IsMark(t) == t % (4 * TicksPerHour) = 0

HourOf(t) == (t % TicksPerDay) \div TicksPerHour

\* C13: get_next_rebalance_time returns the earliest 4-hour mark strictly
\* later than now, never more than 4 hours ahead; from hour 20 on that is
\* 00:00 of the following day.
C13_NextMarkStrictlyLater ==
    pc = "clocked" =>
        /\ IsMark(next_rebalance)
        /\ next_rebalance > now
        /\ \A t \in (now + 1)..(next_rebalance - 1) : ~IsMark(t)
        /\ next_rebalance - now <= 4 * TicksPerHour
        /\ HourOf(now) >= 20 =>
              next_rebalance = ((now \div TicksPerDay) + 1) * TicksPerDay

C13_Witness ==
    /\ pc = "clocked"
    /\ now = TicksPerDay + 20 * TicksPerHour
    /\ next_rebalance = 2 * TicksPerDay

\* C16 (as claimed): given a ranked list of N_SHORTS entries or more,
\* calculate_target_positions returns exactly N_SHORTS Sell entries, for the
\* first N_SHORTS ranked symbols, and leaves every later ranked symbol out.
C16_FirstNShortsOnly ==
    (pc = "allocated" /\ Len(top_volatile) >= N_SHORTS) =>
        /\ Cardinality(Shorts(targets)) = N_SHORTS
        /\ {targets[i].symbol : i \in Shorts(targets)}
              = {top_volatile[i].symbol : i \in 1..N_SHORTS}

\* the place of a symbol in the listing
ListingIndex(s) == CHOOSE i \in 1..Len(perp_symbols) : perp_symbols[i] = s

\* s ranks before t: higher volatility, or the same and listed earlier
RanksBefore(s, t) ==
    \/ candles[s].std > candles[t].std
    \/ candles[s].std = candles[t].std /\ ListingIndex(s) < ListingIndex(t)

\* C18: get_top_volatile_alts returns the N_SHORTS rankable alts of highest
\* volatility, all of them if there are fewer, by descending volatility with
\* ties in listing order; its output is the one sequence the listing and the
\* candles determine, so equal inputs give equal outputs.
C18_TopByVolatilityStable ==
    pc = "ranked" =>
        /\ Len(top_volatile) = Min(N_SHORTS, Cardinality(RankableAlts))
        /\ \A i \in 1..Len(top_volatile) :
              LET s == top_volatile[i].symbol
              IN /\ s \in RankableAlts
                 /\ top_volatile[i].vol = candles[s].std
                 /\ Cardinality({t \in RankableAlts : RanksBefore(t, s)}) = i - 1
        /\ \A s \in RankableAlts \ RankedSymbols :
              \A i \in 1..Len(top_volatile) : candles[s].std <= top_volatile[i].vol
        /\ top_volatile = GetTopVolatileAlts(perp_symbols, candles)

C18_Witness ==
    /\ pc = "ranked"
    /\ Cardinality(RankableAlts) = N_SHORTS + 1
    /\ \E s \in RankableAlts \ RankedSymbols :
          candles[s].std = top_volatile[Len(top_volatile)].vol
    /\ top_volatile[1].vol > top_volatile[Len(top_volatile)].vol
    /\ ListingIndex(top_volatile[1].symbol)
          > ListingIndex(top_volatile[Len(top_volatile)].symbol)

====
